---- MODULE Spec2Model ----
(***************************************************************************)
(* The polling agent of the AgentRPC SDKs: the Node PollingAgent           *)
(* (sdk-node/src/polling.ts) and the Go pollingAgent (sdk-go/polling.go).  *)
(* One agent instance is modelled; `sdk` says which implementation it is.  *)
(* The remote job queue is the environment: it answers the registration,   *)
(* poll and result requests with statuses, headers and job messages drawn  *)
(* from small sets.                                                        *)
(***************************************************************************)
EXTENDS Integers, Sequences, FiniteSets, TLC

----------------------------------------------------------------------------
(* Bounds of the model *)

\* largest number of job messages in one poll response
MaxBatch == 2

\* the Node loop has no threshold: its counter is capped by this bound
NodeFailureCap == 51

\* the server hands jobs to an agent only in a poll that follows at most this
\* many failed polls or, for Go, in a poll at the threshold (the job pipeline
\* of neither SDK reads the failure counter)
JobsAfterFailures == 1

\* largest number of values a Go handler returns
MaxReturns == 2

\* the payloads that tell two return values of one kind apart
MaxPayload == 2

\* longest handler run, in milliseconds
MaxElapsed == 1

\* longest parameter list of a handler given to Register
MaxParams == 2

\* longest API secret, in characters (the prefix "sk" counts as one)
MaxSecretLen == 7

\* largest number of getJob calls of one createAndPollJob call
MaxGets == 2

----------------------------------------------------------------------------
(* Program constants *)

\* sdk-go/polling.go:19
MaxConsecutivePollFailures == 50

\* sdk-go/polling.go:20
DefaultRetryAfter == 0

\* sdk-node/src/polling.ts:11
DEFAULT_RETRY_AFTER_SECONDS == 10

\* create-client.ts:37, the status the Node client reports for a network error
NetworkError == -1

----------------------------------------------------------------------------
(* Inputs *)

SDKs == {"go", "node"}

\* the tools registered before listen
RegisteredTools == {"echo"}

\* the names given to register
ToolNames == {"echo", "add"}

\* the kinds of a Go handler's parameters
ParamKinds == {"struct", "ptrStruct", "int"}

ParamLists == UNION {[1..n -> ParamKinds] : n \in 0..MaxParams}

\* two handlers with the same parameters are told apart by their id
HandlerIds == {1, 2}

\* the handlers given to Register (Go: a function of every parameter list,
\* and a second function of one struct or pointer to struct) and to register
\* (Node: functions and values that are no function)
GoHandlers ==
    [id : {1}, params : ParamLists, callable : {TRUE}]
    \cup [id : HandlerIds, params : {<<"struct">>, <<"ptrStruct">>}, callable : {TRUE}]

NodeHandlers == [id : HandlerIds, params : {<<"struct">>}, callable : BOOLEAN]

\* the handler of the tools of the poll loop
EchoHandler == [id |-> 1, params |-> <<"struct">>, callable |-> TRUE]

\* the input payload of a job message:
\*   "valid"   an object that matches the tool's input schema / struct
\*   "invalid" an object with a field of the wrong type
\*   "null"    JSON null, a payload that is not an object
InputKinds == {"valid", "invalid", "null"}

\* the job messages of the server: for the registered tool with every kind of
\* input, and for a tool name that is not registered
JobMessages ==
    [fn : RegisteredTools, input : InputKinds] \cup [fn : {"ghost"}, input : {"valid"}]

Batches == UNION {[1..n -> JobMessages] : n \in 0..MaxBatch}

\* what a handler does: returns a value, signals an error, returns an interrupt
HandlerReturns == {"value", "error", "interrupt"}

ResultTypes == {"resolution", "rejection", "interrupt"}

\* one return value of a Go handler: a plain value, an error, an Interrupt or
\* a *Interrupt carrying payload v, or a nil error or nil *Interrupt
GoReturnValues ==
    [kind : {"value", "error", "interrupt", "interruptPtr"}, v : 1..MaxPayload]
    \cup [kind : {"nilError", "nilInterruptPtr"}, v : {0}]

\* what a Go handler returns: one value at least
GoReturnLists == UNION {[1..n -> GoReturnValues] : n \in 1..MaxReturns}

\* the Go handlers of the poll loop: (value, nil), (nil, error), (Interrupt, nil)
GoHandlerReturns ==
    { <<[kind |-> "value", v |-> 1], [kind |-> "nilError", v |-> 0]>>,
      <<[kind |-> "nilInterruptPtr", v |-> 0], [kind |-> "error", v |-> 1]>>,
      <<[kind |-> "interrupt", v |-> 1], [kind |-> "nilError", v |-> 0]>> }

\* statuses of a poll response and of a registration response
PollStatuses == {200, 410, 500, NetworkError}
RegisterStatuses == {200, 500}

\* statuses of a result-report response
ReportStatuses == {204, 410, 500}

\* the values of the Retry-After header: absent, not a number, a number
RetryAfterHeaders == {<<>>, <<"abc">>, <<"2">>}

\* no job: the value of cur before the first message of a batch is handled
NoJob == [id |-> 0, fn |-> "", input |-> "", st |-> "none", posted |-> <<>>, invoked |-> 0]

\* no poll response yet
NoPoll == [status |-> 0, directive |-> -1]

VARIABLES
    sdk,            \* which SDK this agent is
    tools,          \* PollingAgent.tools / pollingAgent.Tools (names)
    pc,             \* position of the loop
    polling,        \* Node: PollingAgent.polling
    cancelSet,      \* Go: s.cancel != nil
    ctxDone,        \* Go: s.ctx is cancelled
    failureCount,   \* the loop's local failureCount
    retryAfter,     \* this.retryAfter / s.retryAfter, in seconds
    batch,          \* Node: the jobs of the poll response; Go: the messages poll() has still to handle
    cur,            \* Go: the message handleMessage was last called for
    errors,         \* Go: len(errors) in poll()
    pollErr,        \* whether pollIteration rejected / poll returned an error
    slept,          \* seconds slept since the last poll response
    regs,           \* tool lists of the registration requests sent since the last poll response
    lastPoll,       \* status and numeric Retry-After value of the last poll response
    stopCalled,     \* whether stop() / Unlisten() was called by the application
    regStatus,      \* status of the registration response received since the last poll response, 0 if none
    registry,       \* AgentRPC.toolsRegistry / pollingAgent.Tools: name -> registered handler
    lastRegister,   \* the last register call and whether it returned normally
    returns,        \* Go: the values the handler returned, in order
    clock,          \* Go: milliseconds between time.Now() and time.Since(start) in handleMessage
    outcome,        \* Go: the callResult built from the handler's return values
    secret,         \* the apiSecret option given to the constructor / New
    client,         \* the constructed client, or that construction failed
    request,        \* createAndPollJob: position, local status/result/resultType, number of getJob calls
    answer,         \* createAndPollJob: what it returned or that it threw
    loops,          \* the position of every poll loop listen has started on the agent, in order
    contexts,       \* Go: for every context Listen has created, whether it is cancelled
    agents,         \* Node: AgentRPC.pollingAgents.length
    listening,      \* the listen call of the application: its position and its last result
    session,        \* the cluster id of the last registration response and of the last request
    service         \* Go service.Start: the loop's position, its failureCount, s.retryAfter, s.ctx

\* the state of the poll loop
loopVars == <<sdk, tools, pc, polling, cancelSet, ctxDone, failureCount, retryAfter,
              batch, cur, errors, pollErr, slept, regs, lastPoll, stopCalled, regStatus>>

\* the state of the registry
registerVars == <<registry, lastRegister>>

\* the state of one handler call
classifyVars == <<returns, clock, outcome>>

\* the state of one construction
secretVars == <<secret, client>>

\* the state of one createAndPollJob call
requestVars == <<request, answer>>

\* the state of the listen calls on one agent
listenVars == <<loops, contexts, agents, listening>>

\* what the server has seen of the session
sessionVars == <<session>>

\* the state only the specifications of repeated listen calls and of the session use
\* the state of the poll loop of a Go service
serviceVars == <<service>>

otherVars == <<listenVars, sessionVars, serviceVars>>

vars == <<loopVars, registerVars, classifyVars, secretVars, requestVars, otherVars>>

----------------------------------------------------------------------------
(* Pure functions *)

\* the header values that are decimal integers
IsNumeric(s) == s \in {"0", "1", "2", "3"}

\* strconv.Atoi, Number() on those values
Atoi(s) == CASE s = "0" -> 0 [] s = "1" -> 1 [] s = "2" -> 2 [] s = "3" -> 3 [] OTHER -> 0

\* the pacing directive a response header carries, -1 when it carries none
Directive(header) ==
    IF header # <<>> /\ IsNumeric(header[1]) THEN Atoi(header[1]) ELSE -1

\* the job message as the agent receives it
\*   id      the job id (the position in the poll response)
\*   st      "received" | "skipped" | "running" | "reporting" | "done" | "failed"
\*   posted  the resultType of every result report sent for the job id, in order
\*   invoked how many times the handler was called for the job
Received(m, i) == [id |-> i, fn |-> m.fn, input |-> m.input, st |-> "received",
                   posted |-> <<>>, invoked |-> 0]

\* internal/client FetchData: an error for a network failure and for every
\* status outside 2xx
FetchErr(status) == status < 200 \/ status >= 300

\* json.Unmarshal(inputJson, argPtr) into the handler's struct: null is a no-op
GoDecodeFails(input) == input = "invalid"

\* util.ts validateFunctionArgs throws for an object that does not match the schema
NodeValidateThrows(input) == input = "invalid"

\* execute-fn.ts executeFn: the Result type for what the handler did
ExecuteFn(ret) ==
    CASE ret = "error" -> "rejection"
      [] ret = "interrupt" -> "interrupt"
      [] OTHER -> "resolution"

----------------------------------------------------------------------------
\* a handler registered under each of the tools of the poll loop
NoRegister == [name |-> "", handler |-> EchoHandler, err |-> ""]

RegisterIdle ==
    /\ registry = [n \in RegisteredTools |-> EchoHandler]
    /\ lastRegister = NoRegister

\* no handler call, no construction and no createAndPollJob call under way
ClassifyIdle == returns = <<>> /\ clock = 0 /\ outcome = <<>>

SecretIdle == secret = <<>> /\ client = <<>>

RequestIdle == request = <<>> /\ answer = <<>>

\* no listen call made, no request sent
ListenIdle ==
    /\ loops = <<>>
    /\ contexts = <<>>
    /\ agents = 0
    /\ listening = [at |-> "idle", last |-> ""]

SessionIdle == session = <<>>

ServiceIdle == service = <<>>

OtherIdle == ListenIdle /\ SessionIdle /\ ServiceIdle

\* the poll loop before listen, for an agent with these tools
LoopStart(registered) ==
    /\ sdk \in SDKs
    /\ tools = registered
    /\ pc = "idle"
    /\ polling = FALSE
    /\ cancelSet = FALSE
    /\ ctxDone = FALSE
    /\ failureCount = 0
    /\ retryAfter = (IF sdk = "node" THEN DEFAULT_RETRY_AFTER_SECONDS ELSE 0)
    /\ batch = <<>>
    /\ cur = NoJob
    /\ errors = 0
    /\ pollErr = FALSE
    /\ slept = 0
    /\ regs = <<>>
    /\ lastPoll = NoPoll
    /\ stopCalled = FALSE
    /\ regStatus = 0

----------------------------------------------------------------------------
(* The application stops the agent *)

\* polling.go:154-159 Unlisten
Unlisten ==
    /\ sdk = "go"
    /\ ~stopCalled
    /\ cancelSet
    /\ pc # "exited"
    /\ ctxDone' = TRUE
    /\ stopCalled' = TRUE
    /\ UNCHANGED <<regStatus, sdk, tools, pc, polling, cancelSet, failureCount, retryAfter,
                   batch, cur, errors, pollErr, slept, regs, lastPoll>>

\* polling.ts:57-60 stop
Stop ==
    /\ sdk = "node"
    /\ ~stopCalled
    /\ pc \notin {"idle", "failed", "exited"}
    /\ polling' = FALSE
    /\ stopCalled' = TRUE
    /\ UNCHANGED <<regStatus, sdk, tools, pc, cancelSet, ctxDone, failureCount, retryAfter,
                   batch, cur, errors, pollErr, slept, regs, lastPoll>>

----------------------------------------------------------------------------
(* Go: sdk-go/polling.go *)

NoTools_never == FALSE

\* agentrpc.go:207-210 len(s.Tools) == 0
NoTools == tools = {}

\* Listen, polling.go:115-116 with registerMachine up to its request:
\* no request is sent for an agent without tools
Listen ==
    /\ sdk = "go"
    /\ pc = "idle"
    /\ IF NoTools
       THEN pc' = "failed" /\ UNCHANGED regs
       ELSE pc' = "registering" /\ regs' = Append(regs, tools)
    /\ UNCHANGED <<regStatus, sdk, tools, polling, cancelSet, ctxDone, failureCount, retryAfter,
                   batch, cur, errors, pollErr, slept, lastPoll, stopCalled>>

\* Listen, polling.go:116-151: the registration response arrives
ListenRegistered(status) ==
    /\ sdk = "go"
    /\ pc = "registering"
    /\ IF FetchErr(status)
       THEN /\ pc' = "failed"
            /\ UNCHANGED <<cancelSet, ctxDone, retryAfter>>
       ELSE /\ cancelSet' = TRUE
            /\ ctxDone' = FALSE
            /\ retryAfter' = DefaultRetryAfter
            /\ pc' = "sleep"
    /\ regStatus' = status
    /\ UNCHANGED <<sdk, tools, polling, failureCount, batch, cur, errors, pollErr,
                   slept, regs, lastPoll, stopCalled>>

\* polling.go:127 time.Sleep(s.retryAfter)
GoSleepSeconds == retryAfter

GoSleep ==
    /\ sdk = "go"
    /\ pc = "sleep"
    /\ slept' = GoSleepSeconds
    /\ pc' = "select"
    /\ UNCHANGED <<regStatus, sdk, tools, polling, cancelSet, ctxDone, failureCount, retryAfter,
                   batch, cur, errors, pollErr, regs, lastPoll, stopCalled>>

GoCancelled_never == FALSE

\* polling.go:130 case <-s.ctx.Done()
GoCancelled == ctxDone

\* polling.go:129-133 and 161-184: return when cancelled, else send the poll request
GoSelect ==
    /\ sdk = "go"
    /\ pc = "select"
    /\ pc' = IF GoCancelled THEN "exited" ELSE "polling"
    /\ UNCHANGED <<regStatus, sdk, tools, polling, cancelSet, ctxDone, failureCount, retryAfter,
                   batch, cur, errors, pollErr, slept, regs, lastPoll, stopCalled>>

GoRetryAfter_ignored(header, current) == current

\* polling.go:194-200
GoRetryAfter(header, current) ==
    IF header # <<>> /\ IsNumeric(header[1]) THEN Atoi(header[1]) ELSE current

\* polling.go:186 the status that makes poll re-register
GoSessionGone_never(status) == FALSE

GoSessionGone(status) == status = 410

\* polling.go:184-207: the poll response arrives
GoPollResponse(status, header, msgs) ==
    /\ sdk = "go"
    /\ pc = "polling"
    /\ lastPoll' = [status |-> status, directive |-> Directive(header)]
    /\ regStatus' = 0
    /\ slept' = 0
    /\ cur' = NoJob
    /\ errors' = 0
    /\ IF GoSessionGone(status)
       THEN \* registerMachine is called, its request is in flight
            /\ regs' = <<tools>>
            /\ pc' = "reregister"
            /\ UNCHANGED <<retryAfter, batch, pollErr>>
       ELSE IF FetchErr(status)
       THEN /\ regs' = <<>>
            /\ pollErr' = TRUE
            /\ pc' = "returned"
            /\ UNCHANGED <<retryAfter, batch>>
       ELSE /\ regs' = <<>>
            /\ retryAfter' = GoRetryAfter(header, retryAfter)
            /\ batch' = [i \in 1..Len(msgs) |-> Received(msgs[i], i)]
            /\ pc' = "handle"
            /\ UNCHANGED pollErr
    /\ UNCHANGED <<sdk, tools, polling, cancelSet, ctxDone, failureCount, stopCalled>>

\* polling.go:186-192: the result of registerMachine is dropped, then the
\* error of the poll request is returned
GoReregistered(status) ==
    /\ sdk = "go"
    /\ pc = "reregister"
    /\ regStatus' = status
    /\ pollErr' = TRUE
    /\ pc' = "returned"
    /\ UNCHANGED <<sdk, tools, polling, cancelSet, ctxDone, failureCount, retryAfter,
                   batch, cur, errors, slept, regs, lastPoll, stopCalled>>

\* polling.go:313-339 persistJobResult: the report is sent, err for a failed request
GoPersist(job, resultType, status) ==
    [job EXCEPT !.posted = Append(@, resultType),
                !.st = IF FetchErr(status) THEN "failed" ELSE "done"]

\* polling.go:274 a value of a type assignable to error that is not nil
IsError(r) == r.kind = "error"

IsInterrupt_valueOnly(r) == r.kind = "interrupt"

\* polling.go:281-292 an Interrupt, or a *Interrupt that is not nil
IsInterrupt(r) == r.kind \in {"interrupt", "interruptPtr"}

\* polling.go:272-294 the loop over the return values from the i-th on, with
\* the resultType and resultValue found so far; an error ends the loop
RECURSIVE GoClassifyLoop(_, _, _)
GoClassifyLoop(rets, i, found) ==
    IF i > Len(rets) THEN found
    ELSE IF IsError(rets[i]) THEN [type |-> "rejection", content |-> rets[i]]
    ELSE IF IsInterrupt(rets[i])
         THEN GoClassifyLoop(rets, i + 1, [type |-> "interrupt", content |-> rets[i]])
    ELSE GoClassifyLoop(rets, i + 1, found)

\* polling.go:269-295, the classification of the handler's return values
GoClassify(rets) ==
    GoClassifyLoop(rets, 1, [type |-> "resolution", content |-> rets[1]])

\* polling.go:302 int64(time.Since(start).Milliseconds())
FunctionExecutionTime(elapsed) == elapsed

\* polling.go:297-303 the callResult
GoCallResult(rets, elapsed) ==
    [type |-> GoClassify(rets).type, content |-> GoClassify(rets).content,
     time |-> FunctionExecutionTime(elapsed)]

\* polling.go:264-311: the handler is called, its return classified and reported
GoCallAndReport(job, ret, status) ==
    GoPersist([job EXCEPT !.invoked = @ + 1], GoClassify(ret).type, status)

GoKnown_any(fn) == TRUE

\* polling.go:224-230 the lookup of the tool
GoKnown(fn) == fn \in tools

GoHandleMessage_dropped(job, ret, r1, r2) ==
    IF ctxDone THEN [job EXCEPT !.st = "skipped"] ELSE GoCallAndReport(job, ret, r2)

\* polling.go:224-311 handleMessage
\*   ret the handler's return, r1 the response to the report of a decoding
\*   error, r2 the response to the report of the handler's result
GoHandleMessage(job, ret, r1, r2) ==
    IF ~GoKnown(job.fn)
    THEN [job EXCEPT !.st = "skipped"]
    ELSE IF GoDecodeFails(job.input)
    THEN LET rejected == GoPersist(job, "rejection", r1)
         IN  IF rejected.st = "failed"
             THEN rejected
             ELSE GoCallAndReport(rejected, ret, r2)
    ELSE GoCallAndReport(job, ret, r2)

\* polling.go:209-215: the next message of the batch is handled
GoHandle(ret, r1, r2) ==
    /\ sdk = "go"
    /\ pc = "handle"
    /\ batch # <<>>
    /\ cur' = GoHandleMessage(Head(batch), ret, r1, r2)
    /\ errors' = IF cur'.st = "failed" THEN errors + 1 ELSE errors
    /\ batch' = Tail(batch)
    /\ UNCHANGED <<regStatus, sdk, tools, pc, polling, cancelSet, ctxDone, failureCount,
                   retryAfter, pollErr, slept, regs, lastPoll, stopCalled>>

\* polling.go:217-221: poll returns, with an error if a message failed
GoPollReturn ==
    /\ sdk = "go"
    /\ pc = "handle"
    /\ batch = <<>>
    /\ pollErr' = (errors > 0)
    /\ cur' = NoJob
    /\ errors' = 0
    /\ pc' = "returned"
    /\ UNCHANGED <<regStatus, sdk, tools, polling, cancelSet, ctxDone, failureCount, retryAfter,
                   batch, slept, regs, lastPoll, stopCalled>>

GoTooManyFailures_ge(count) == count >= MaxConsecutivePollFailures

GoTooManyFailures_first(count) == count >= 1

GoTooManyFailures_second(count) == count >= 2

\* polling.go:138 the threshold test
GoTooManyFailures(count) == count > MaxConsecutivePollFailures

GoCountFailure_always(count, err) == count + 1

\* polling.go:133-137 the failure counter of the Listen loop
GoCountFailure(count, err) == IF err THEN count + 1 ELSE count

\* polling.go:133-146: back in the loop of Listen
GoAfterPoll ==
    /\ sdk = "go"
    /\ pc = "returned"
    /\ failureCount' = GoCountFailure(failureCount, pollErr)
    /\ ctxDone' = IF pollErr /\ GoTooManyFailures(failureCount') /\ cancelSet
                  THEN TRUE ELSE ctxDone
    /\ pollErr' = FALSE
    /\ pc' = "sleep"
    /\ UNCHANGED <<regStatus, sdk, tools, polling, cancelSet, retryAfter, batch, cur, errors,
                   slept, regs, lastPoll, stopCalled>>

GoNext ==
    \/ Listen
    \/ \E status \in RegisterStatuses : ListenRegistered(status)
    \/ Unlisten
    \/ GoSleep
    \/ GoSelect
    \/ \E status \in PollStatuses, header \in RetryAfterHeaders, msgs \in Batches :
          /\ status # 200 => msgs = <<>>
          /\ msgs # <<>> => \/ failureCount <= JobsAfterFailures
                            \/ failureCount >= MaxConsecutivePollFailures
          /\ status = NetworkError => header = <<>>
          /\ GoPollResponse(status, header, msgs)
    \/ \E status \in RegisterStatuses : GoReregistered(status)
    \/ \E ret \in GoHandlerReturns, r1, r2 \in ReportStatuses :
          /\ batch # <<>>
          /\ ~GoDecodeFails(Head(batch).input) => r1 = 204
          /\ GoHandle(ret, r1, r2)
    \/ GoPollReturn
    \/ GoAfterPoll

----------------------------------------------------------------------------
(* Node: sdk-node/src/polling.ts *)

\* start, polling.ts:49-51 with registerMachine up to its request
Start ==
    /\ sdk = "node"
    /\ pc = "idle"
    /\ regs' = Append(regs, tools)
    /\ pc' = "registering"
    /\ UNCHANGED <<regStatus, sdk, tools, polling, cancelSet, ctxDone, failureCount, retryAfter,
                   batch, cur, errors, pollErr, slept, lastPoll, stopCalled>>

RegisterThrows_never(status) == FALSE

\* polling.ts:264-267 registerMachine throws unless the status is 200
RegisterThrows(status) == status # 200

\* start, polling.ts:51-54, and runLoop up to the first poll request, :62-107
Started(status) ==
    /\ sdk = "node"
    /\ pc = "registering"
    /\ IF RegisterThrows(status)
       THEN pc' = "failed" /\ UNCHANGED polling
       ELSE polling' = TRUE /\ pc' = "polling"
    /\ regStatus' = status
    /\ UNCHANGED <<sdk, tools, cancelSet, ctxDone, failureCount, retryAfter, batch,
                   cur, errors, pollErr, slept, regs, lastPoll, stopCalled>>

\* polling.ts:109-112
NodeRetryAfter(header, current) ==
    IF header # <<>> /\ header[1] # "" /\ IsNumeric(header[1])
    THEN Atoi(header[1]) ELSE current

\* polling.ts:114 the status that makes pollIteration re-register
NodeSessionGone(status) == status = 410

\* polling.ts:197 typeof args !== "object" || Array.isArray(args) || args === null
NodeNotObject(input) == input = "null"

\* polling.ts:139-141 the lookup of the tool
NodeKnown(fn) == fn \in tools

\* processCall up to its first await, polling.ts:138-236: an unknown tool is
\* skipped, a payload that is not an object or fails validation is reported
\* as a rejection, otherwise the handler is called
ProcessCall(job) ==
    IF ~NodeKnown(job.fn)
    THEN [job EXCEPT !.st = "skipped"]
    ELSE IF NodeNotObject(job.input) \/ NodeValidateThrows(job.input)
    THEN [job EXCEPT !.posted = Append(@, "rejection"), !.st = "reporting"]
    ELSE [job EXCEPT !.invoked = @ + 1, !.st = "running"]

\* pollIteration, polling.ts:109-129: the poll response arrives
NodePollResponse(status, header, msgs) ==
    /\ sdk = "node"
    /\ pc = "polling"
    /\ lastPoll' = [status |-> status, directive |-> Directive(header)]
    /\ regStatus' = 0
    /\ slept' = 0
    /\ retryAfter' = NodeRetryAfter(header, retryAfter)
    /\ IF NodeSessionGone(status)
       THEN \* registerMachine is called, its request is in flight
            /\ regs' = <<tools>>
            /\ pc' = "reregister"
            /\ UNCHANGED <<batch, pollErr>>
       ELSE IF status # 200
       THEN /\ regs' = <<>>
            /\ pollErr' = TRUE
            /\ pc' = "returned"
            /\ UNCHANGED batch
       ELSE /\ regs' = <<>>
            /\ batch' = [i \in 1..Len(msgs) |-> ProcessCall(Received(msgs[i], i))]
            /\ pc' = "jobs"
            /\ UNCHANGED pollErr
    /\ UNCHANGED <<sdk, tools, polling, cancelSet, ctxDone, failureCount, cur, errors,
                   stopCalled>>

\* polling.ts:114-123: registerMachine returns or throws; the iteration throws either way
NodeReregistered(status) ==
    /\ sdk = "node"
    /\ pc = "reregister"
    /\ regStatus' = status
    /\ pollErr' = TRUE
    /\ pc' = "returned"
    /\ UNCHANGED <<sdk, tools, polling, cancelSet, ctxDone, failureCount, retryAfter,
                   batch, cur, errors, slept, regs, lastPoll, stopCalled>>

\* polling.ts:236-238 and 154-175: the handler settles, executeFn returns the
\* Result, onComplete sends the report
HandlerDone(i, ret) ==
    /\ sdk = "node"
    /\ pc = "jobs"
    /\ i \in 1..Len(batch)
    /\ batch[i].st = "running"
    /\ batch' = [batch EXCEPT ![i].posted = Append(@, ExecuteFn(ret)),
                              ![i].st = "reporting"]
    /\ UNCHANGED <<regStatus, sdk, tools, pc, polling, cancelSet, ctxDone, failureCount,
                   retryAfter, cur, errors, pollErr, slept, regs, lastPoll, stopCalled>>

\* polling.ts:176-185: onComplete throws unless the status is 204
ReportThrows(status) == status # 204

\* polling.ts:176-185: the response to a result report arrives
ReportResponse(i, status) ==
    /\ sdk = "node"
    /\ pc = "jobs"
    /\ i \in 1..Len(batch)
    /\ batch[i].st = "reporting"
    /\ batch' = [batch EXCEPT ![i].st = IF ReportThrows(status) THEN "failed" ELSE "done"]
    /\ UNCHANGED <<regStatus, sdk, tools, pc, polling, cancelSet, ctxDone, failureCount,
                   retryAfter, cur, errors, pollErr, slept, regs, lastPoll, stopCalled>>

Settled_dispatched(j) == j.st # "received"

\* polling.ts:125-129 a processCall promise has settled: the job was skipped, or
\* its report completed or threw
Settled(j) == j.st \in {"skipped", "done", "failed"}

\* polling.ts:125-136: Promise.allSettled resolves, pollIteration returns
AllSettled ==
    /\ sdk = "node"
    /\ pc = "jobs"
    /\ \A i \in 1..Len(batch) : Settled(batch[i])
    /\ pollErr' = FALSE
    /\ batch' = <<>>
    /\ pc' = "returned"
    /\ UNCHANGED <<regStatus, sdk, tools, polling, cancelSet, ctxDone, failureCount, retryAfter,
                   cur, errors, slept, regs, lastPoll, stopCalled>>

\* runLoop, polling.ts:68-81
NodeCountFailure(count, err) ==
    IF err THEN count + 1
    ELSE IF count > 0 THEN 0 ELSE count

\* runLoop, polling.ts:68-85: the iteration is over, the timer is set
NodeAfterIteration ==
    /\ sdk = "node"
    /\ pc = "returned"
    /\ failureCount' = NodeCountFailure(failureCount, pollErr)
    /\ pollErr' = FALSE
    /\ pc' = "sleep"
    /\ UNCHANGED <<regStatus, sdk, tools, polling, cancelSet, ctxDone, retryAfter, batch, cur,
                   errors, slept, regs, lastPoll, stopCalled>>

\* polling.ts:83-85 setTimeout(resolve, this.retryAfter * 1000)
NodeSleepSeconds == retryAfter

\* runLoop, polling.ts:83-86 and 67-107: the timer fires, the loop tests
\* this.polling and sends the next poll request
NodeSleep ==
    /\ sdk = "node"
    /\ pc = "sleep"
    /\ slept' = NodeSleepSeconds
    /\ pc' = IF polling THEN "polling" ELSE "exited"
    /\ UNCHANGED <<regStatus, sdk, tools, polling, cancelSet, ctxDone, failureCount, retryAfter,
                   batch, cur, errors, pollErr, regs, lastPoll, stopCalled>>

NodeNext ==
    \/ Start
    \/ \E status \in RegisterStatuses : Started(status)
    \/ Stop
    \/ \E status \in PollStatuses, header \in RetryAfterHeaders, msgs \in Batches :
          /\ status # 200 => msgs = <<>> /\ failureCount < NodeFailureCap
          /\ msgs # <<>> => failureCount <= JobsAfterFailures
          /\ status = NetworkError => header = <<>>
          /\ NodePollResponse(status, header, msgs)
    \/ \E status \in RegisterStatuses : NodeReregistered(status)
    \/ \E i \in 1..MaxBatch, ret \in HandlerReturns : HandlerDone(i, ret)
    \/ \E i \in 1..MaxBatch, status \in ReportStatuses : ReportResponse(i, status)
    \/ AllSettled
    \/ NodeAfterIteration
    \/ NodeSleep

----------------------------------------------------------------------------
LoopInit == LoopStart(RegisteredTools)

Init ==
    /\ OtherIdle
    /\ LoopInit
    /\ RegisterIdle
    /\ ClassifyIdle
    /\ SecretIdle
    /\ RequestIdle

Next ==
    /\ GoNext \/ NodeNext
    /\ UNCHANGED <<registerVars, otherVars, classifyVars, secretVars, requestVars>>

Spec == Init /\ [][Next]_vars

----------------------------------------------------------------------------
(* register / Register, before and after listen *)

RegisterInit ==
    /\ OtherIdle
    /\ LoopStart({})
    /\ registry = <<>>
    /\ lastRegister = NoRegister
    /\ ClassifyIdle
    /\ SecretIdle
    /\ RequestIdle

GoIsPolling_never == FALSE

\* polling.go:358-360 isPolling
GoIsPolling == cancelSet

Registered_never(name) == FALSE

\* polling.go:60 s.Tools[fn.Name] exists, agentrpc.ts:161 this.toolsRegistry[name]
Registered(name) == name \in DOMAIN registry

GoWrongArity_none(params) == Len(params) = 0

\* polling.go:66 fnType.NumIn() != 1
GoWrongArity(params) == Len(params) # 1

\* polling.go:72-74 the referenced type of a pointer
Deref(kind) ==
    IF kind = "ptrStruct" THEN "struct" ELSE kind

\* polling.go:55-78 the error Register returns, "" when it accepts the tool
GoRegisterError(name, handler) ==
    IF GoIsPolling THEN "polling"
    ELSE IF Registered(name) THEN "duplicate"
    ELSE IF GoWrongArity(handler.params) THEN "arity"
    ELSE IF Deref(handler.params[1]) # "struct" THEN "kind"
    ELSE ""

NodeListening_started == pc \notin {"idle", "failed"}

\* agentrpc.ts:194-208 this.pollingAgents.length > 0: listen pushes the agent
\* before it starts it and nothing removes it
NodeListening == pc # "idle"

\* agentrpc.ts:161-185 the error register throws, "" when it accepts the tool
NodeRegisterError(name, handler) ==
    IF Registered(name) THEN "duplicate"
    ELSE IF NodeListening THEN "listening"
    ELSE IF ~handler.callable THEN "handler"
    ELSE ""

\* polling.go:110 s.Tools[fn.Name] = fn, agentrpc.ts:191
Store(name, handler) ==
    [n \in DOMAIN registry \cup {name} |-> IF n = name THEN handler ELSE registry[n]]

\* polling.go:55-112 Register, agentrpc.ts:154-192 register; tools is the
\* list of registered tools the agent works with
Register(name, handler) ==
    LET err == IF sdk = "go" THEN GoRegisterError(name, handler)
               ELSE NodeRegisterError(name, handler)
    IN  /\ lastRegister' = [name |-> name, handler |-> handler, err |-> err]
        /\ registry' = IF err = "" THEN Store(name, handler) ELSE registry
        /\ tools' = DOMAIN registry'
        /\ UNCHANGED <<sdk, pc, polling, cancelSet, ctxDone, failureCount, retryAfter,
                       batch, cur, errors, pollErr, slept, regs, lastPoll, stopCalled,
                       regStatus, otherVars, classifyVars, secretVars, requestVars>>

RegisterNext ==
    \/ \E name \in ToolNames, handler \in GoHandlers :
          sdk = "go" /\ Register(name, handler)
    \/ \E name \in ToolNames, handler \in NodeHandlers :
          sdk = "node" /\ Register(name, handler)
    \/ /\ \/ Listen
          \/ \E status \in RegisterStatuses : ListenRegistered(status)
          \/ Unlisten
          \/ GoSleep
          \/ GoSelect
          \/ Start
          \/ \E status \in RegisterStatuses : Started(status)
          \/ Stop
       /\ UNCHANGED <<registerVars, otherVars, classifyVars, secretVars, requestVars>>

RegisterSpec == RegisterInit /\ [][RegisterNext]_vars

----------------------------------------------------------------------------
(* The construction of a client from an API secret *)

\* the characters of a secret: the two letters "sk" taken together, any other
\* character, and the underscore
SecretChars == {"sk", "a", "_"}

\* the secrets given to the constructor; the empty one is also no secret given
Secrets == UNION {[1..n -> SecretChars] : n \in 0..MaxSecretLen}

\* String.prototype.split("_"), strings.Split(s, "_"): the segments between
\* the underscores from the i-th character on, after the segments in done
\* and the characters in segment
RECURSIVE SplitFrom(_, _, _, _)
SplitFrom(str, i, segment, done) ==
    IF i > Len(str) THEN Append(done, segment)
    ELSE IF str[i] = "_" THEN SplitFrom(str, i + 1, <<>>, Append(done, segment))
    ELSE SplitFrom(str, i + 1, Append(segment, str[i]), done)

Split(str) == SplitFrom(str, 1, <<>>, <<>>)

\* the failed construction
Invalid == [ok |-> FALSE, clusterId |-> <<>>]

\* agentrpc.ts:87 destructuring: the i-th segment is neither undefined nor ""
Truthy(parts, i) == i <= Len(parts) /\ parts[i] # <<>>

\* agentrpc.ts:75-92 constructor
NodeConstructor(apiSecret) ==
    IF apiSecret = <<>> THEN Invalid
    ELSE LET parts == Split(apiSecret)
         IN  IF parts[1] # <<"sk">> \/ ~Truthy(parts, 2) \/ ~Truthy(parts, 3)
             THEN Invalid
             ELSE [ok |-> TRUE, clusterId |-> parts[2]]

\* agentrpc.go:60-76 New
GoNew(apiSecret) ==
    LET parts == Split(apiSecret)
    IN  IF Len(parts) # 3 \/ parts[1] # <<"sk">>
        THEN Invalid
        ELSE [ok |-> TRUE, clusterId |-> parts[2]]

SecretInit ==
    /\ OtherIdle
    /\ LoopInit
    /\ RegisterIdle
    /\ ClassifyIdle
    /\ RequestIdle
    /\ secret \in Secrets
    /\ client = <<>>

NewNode ==
    /\ sdk = "node"
    /\ client = <<>>
    /\ client' = NodeConstructor(secret)
    /\ UNCHANGED <<secret, loopVars, registerVars, otherVars, classifyVars, requestVars>>

NewGo ==
    /\ sdk = "go"
    /\ client = <<>>
    /\ client' = GoNew(secret)
    /\ UNCHANGED <<secret, loopVars, registerVars, otherVars, classifyVars, requestVars>>

SecretNext == NewNode \/ NewGo

SecretSpec == SecretInit /\ [][SecretNext]_vars

----------------------------------------------------------------------------
(* createAndPollJob, src/sdk-node/src/polling.ts *)

\* statuses of the createJob and getJob responses
RequestStatuses == {200, 404, NetworkError}

\* the body of a createJob or getJob response; "" is null, undefined or ""
JobViews ==
    [status : {"", "pending", "running", "done", "failure"},
     result : {"", "r1", "r2"},
     resultType : {"", "resolution", "rejection"}]

NoView == [status |-> "", result |-> "", resultType |-> ""]

\* x || d
Or(x, d) == IF x = "" THEN d ELSE x

Terminal_doneOnly(status) == status = "done"

\* polling.ts:303 status && ["failure", "done"].includes(status)
Terminal(status) == status \in {"failure", "done"}

RequestInit ==
    /\ OtherIdle
    /\ LoopInit /\ sdk = "node"
    /\ RegisterIdle
    /\ ClassifyIdle
    /\ SecretIdle
    /\ RequestIdle

\* createAndPollJob, polling.ts:334-354: the createJob request is sent
\*   pc      position of the call
\*   status, result, resultType  the locals of pollForJobCompletion
\*   gets    number of getJob requests sent
\*   http, created, latest  status of the latest response, body of the
\*           createJob response and of the latest response with status 200
CreateJob ==
    /\ request = <<>>
    /\ request' = [pc |-> "creating", status |-> "", result |-> "", resultType |-> "",
                   gets |-> 0, http |-> 0, created |-> NoView, latest |-> NoView]
    /\ UNCHANGED <<answer, loopVars, registerVars, otherVars, classifyVars, secretVars>>

\* what the caller gets: the returned object, or an error
Threw == [kind |-> "threw", status |-> "", result |-> "", resultType |-> ""]

Returned(status, result, resultType) ==
    [kind |-> "returned", status |-> status, result |-> result, resultType |-> resultType]

\* createAndPollJob, polling.ts:356-367, and pollForJobCompletion up to its
\* loop, :287-301: the createJob response arrives
CreateResponse(http, body) ==
    /\ request # <<>>
    /\ request.pc = "creating"
    /\ IF http # 200
       THEN /\ request' = [request EXCEPT !.pc = "done", !.http = http]
            /\ answer' = Threw
       ELSE /\ request' = [request EXCEPT !.pc = "loop", !.http = http,
                                          !.status = body.status,
                                          !.result = Or(body.result, ""),
                                          !.resultType = Or(body.resultType, "rejection"),
                                          !.created = body, !.latest = body]
            /\ UNCHANGED answer
    /\ UNCHANGED <<loopVars, registerVars, otherVars, classifyVars, secretVars>>

\* pollForJobCompletion, polling.ts:303-306 and 320: the loop test; the
\* result is returned, or the timer runs and a getJob request is sent
LoopTest ==
    /\ request # <<>>
    /\ request.pc = "loop"
    /\ IF Terminal(request.status)
       THEN /\ answer' = Returned(request.status, request.result, request.resultType)
            /\ request' = [request EXCEPT !.pc = "done"]
       ELSE /\ request.gets < MaxGets
            /\ request' = [request EXCEPT !.pc = "getting", !.gets = @ + 1]
            /\ UNCHANGED answer
    /\ UNCHANGED <<loopVars, registerVars, otherVars, classifyVars, secretVars>>

\* pollForJobCompletion, polling.ts:306-318: the getJob response arrives
GetResponse(http, body) ==
    /\ request # <<>>
    /\ request.pc = "getting"
    /\ IF http # 200
       THEN /\ request' = [request EXCEPT !.pc = "done", !.http = http]
            /\ answer' = Threw
       ELSE /\ request' = [request EXCEPT !.pc = "loop", !.http = http,
                                          !.status = body.status,
                                          !.result = Or(body.result, ""),
                                          !.resultType = Or(body.resultType, "rejection"),
                                          !.latest = body]
            /\ UNCHANGED answer
    /\ UNCHANGED <<loopVars, registerVars, otherVars, classifyVars, secretVars>>

RequestNext ==
    \/ CreateJob
    \/ \E http \in RequestStatuses, body \in JobViews :
          /\ http # 200 => body = NoView
          /\ CreateResponse(http, body)
    \/ LoopTest
    \/ \E http \in RequestStatuses, body \in JobViews :
          /\ http # 200 => body = NoView
          /\ GetResponse(http, body)

RequestSpec == RequestInit /\ [][RequestNext]_vars

----------------------------------------------------------------------------
(* One call of a Go handler and the result built from what it returns *)

ClassifyInit ==
    /\ OtherIdle
    /\ LoopInit /\ sdk = "go"
    /\ RegisterIdle
    /\ ClassifyIdle
    /\ SecretIdle
    /\ RequestIdle

\* polling.go:264-267: the handler runs for some time and returns
CallHandler(rets, elapsed) ==
    /\ returns = <<>>
    /\ returns' = rets
    /\ clock' = elapsed
    /\ UNCHANGED <<outcome, loopVars, registerVars, otherVars, secretVars, requestVars>>

\* polling.go:269-303: the result is built
BuildResult ==
    /\ returns # <<>>
    /\ outcome = <<>>
    /\ outcome' = GoCallResult(returns, clock)
    /\ UNCHANGED <<returns, clock, loopVars, registerVars, otherVars, secretVars, requestVars>>

ClassifyNext ==
    \/ \E rets \in GoReturnLists, elapsed \in 0..MaxElapsed : CallHandler(rets, elapsed)
    \/ BuildResult

ClassifySpec == ClassifyInit /\ [][ClassifyNext]_vars

----------------------------------------------------------------------------
(* listen / Listen called more than once on one agent *)

\* This specification follows the requests of every poll loop the listen calls
\* start on one agent. The jobs of a poll response and the failure counter of
\* a loop are those of Spec; here a poll response carries no job, and a loop
\* ends only through the application's unlisten.

\* how many poll loops the listen calls may start
MaxListens == 2

\* the status of a poll response: success, session gone, a server error
LoopPollStatuses == {200, 410, 500}

\* every variable of the poll loop of Spec but PollingAgent.polling
loopRest == <<sdk, tools, pc, cancelSet, ctxDone, failureCount, retryAfter, batch, cur,
              errors, pollErr, slept, regs, lastPoll, stopCalled, regStatus>>

\* polling.go:115-116 Listen with registerMachine up to its request: nothing
\* tests whether the agent is already listening
GoListenCall ==
    /\ sdk = "go"
    /\ listening.at = "idle"
    /\ Len(loops) < MaxListens
    /\ listening' = IF tools = {} THEN [at |-> "idle", last |-> "failed"]
                    ELSE [at |-> "registering", last |-> listening.last]
    /\ UNCHANGED <<loops, contexts, agents, polling>>

\* polling.go:116-151: the registration response arrives; on success a new
\* context replaces s.ctx and s.cancel and a new goroutine is started
GoListenReturn(status) ==
    /\ sdk = "go"
    /\ listening.at = "registering"
    /\ IF FetchErr(status)
       THEN /\ listening' = [at |-> "idle", last |-> "failed"]
            /\ UNCHANGED <<loops, contexts>>
       ELSE /\ contexts' = Append(contexts, FALSE)
            /\ loops' = Append(loops, "sleep")
            /\ listening' = [at |-> "idle", last |-> "started"]
    /\ UNCHANGED <<agents, polling>>

\* polling.go:154-159 Unlisten: s.cancel cancels the context created last
GoUnlistenCall ==
    /\ sdk = "go"
    /\ contexts # <<>>
    /\ contexts' = [contexts EXCEPT ![Len(contexts)] = TRUE]
    /\ UNCHANGED <<loops, agents, listening, polling>>

\* polling.go:127 time.Sleep in the i-th goroutine
GoLoopSleep(i) ==
    /\ sdk = "go"
    /\ i \in DOMAIN loops /\ loops[i] = "sleep"
    /\ loops' = [loops EXCEPT ![i] = "select"]
    /\ UNCHANGED <<contexts, agents, listening, polling>>

\* polling.go:129-133: the i-th goroutine reads s.ctx, which Listen writes
\* without synchronisation: the read yields the k-th context, its own or one
\* created later; cancelled, the goroutine returns, else it sends a poll request
GoLoopSelect(i, k) ==
    /\ sdk = "go"
    /\ i \in DOMAIN loops /\ loops[i] = "select"
    /\ k \in i..Len(contexts)
    /\ loops' = [loops EXCEPT ![i] = IF contexts[k] THEN "exited" ELSE "polling"]
    /\ UNCHANGED <<contexts, agents, listening, polling>>

\* polling.go:184-221: the poll response of the i-th goroutine arrives; 410
\* puts a registration request in flight
GoLoopPoll(i, status) ==
    /\ sdk = "go"
    /\ i \in DOMAIN loops /\ loops[i] = "polling"
    /\ loops' = [loops EXCEPT ![i] = IF GoSessionGone(status) THEN "reregister" ELSE "sleep"]
    /\ UNCHANGED <<contexts, agents, listening, polling>>

\* polling.go:186-192: the registration response arrives, poll returns
GoLoopReregistered(i) ==
    /\ sdk = "go"
    /\ i \in DOMAIN loops /\ loops[i] = "reregister"
    /\ loops' = [loops EXCEPT ![i] = "sleep"]
    /\ UNCHANGED <<contexts, agents, listening, polling>>

\* agentrpc.ts:195 this.pollingAgents.length > 0
AlreadyListening == agents > 0

\* agentrpc.ts:194-209 listen with start up to its request, polling.ts:49-51:
\* the agent is pushed before it is started
NodeListenCall ==
    /\ sdk = "node"
    /\ listening.at = "idle"
    /\ IF AlreadyListening
       THEN listening' = [at |-> "idle", last |-> "rejected"] /\ UNCHANGED agents
       ELSE listening' = [at |-> "registering", last |-> listening.last] /\ agents' = agents + 1
    /\ UNCHANGED <<loops, contexts, polling>>

\* polling.ts:51-54 and 62-107: the registration response arrives; on success
\* runLoop starts and sends its first poll request
NodeListenReturn(status) ==
    /\ sdk = "node"
    /\ listening.at = "registering"
    /\ IF RegisterThrows(status)
       THEN /\ listening' = [at |-> "idle", last |-> "failed"]
            /\ UNCHANGED <<loops, polling>>
       ELSE /\ polling' = TRUE
            /\ loops' = Append(loops, "polling")
            /\ listening' = [at |-> "idle", last |-> "started"]
    /\ UNCHANGED <<contexts, agents>>

\* agentrpc.ts:212-214 unlisten: stop() of every polling agent, polling.ts:57-60
NodeUnlistenCall ==
    /\ sdk = "node"
    /\ agents > 0
    /\ polling' = FALSE
    /\ UNCHANGED <<loops, contexts, agents, listening>>

\* polling.ts:109-123: the poll response arrives; 410 puts a registration
\* request in flight
NodeLoopPoll(i, status) ==
    /\ sdk = "node"
    /\ i \in DOMAIN loops /\ loops[i] = "polling"
    /\ loops' = [loops EXCEPT ![i] = IF NodeSessionGone(status) THEN "reregister" ELSE "sleep"]
    /\ UNCHANGED <<contexts, agents, listening, polling>>

\* polling.ts:114-123: the registration response arrives, the iteration throws
NodeLoopReregistered(i) ==
    /\ sdk = "node"
    /\ i \in DOMAIN loops /\ loops[i] = "reregister"
    /\ loops' = [loops EXCEPT ![i] = "sleep"]
    /\ UNCHANGED <<contexts, agents, listening, polling>>

\* polling.ts:83-86 and 67-107: the timer fires, the loop tests this.polling
NodeLoopSleep(i) ==
    /\ sdk = "node"
    /\ i \in DOMAIN loops /\ loops[i] = "sleep"
    /\ loops' = [loops EXCEPT ![i] = IF polling THEN "polling" ELSE "exited"]
    /\ UNCHANGED <<contexts, agents, listening, polling>>

ListenNext ==
    /\ \/ GoListenCall
       \/ \E status \in RegisterStatuses : GoListenReturn(status)
       \/ GoUnlistenCall
       \/ \E i \in 1..MaxListens : GoLoopSleep(i)
       \/ \E i, k \in 1..MaxListens : GoLoopSelect(i, k)
       \/ \E i \in 1..MaxListens, status \in LoopPollStatuses : GoLoopPoll(i, status)
       \/ \E i \in 1..MaxListens : GoLoopReregistered(i)
       \/ NodeListenCall
       \/ \E status \in RegisterStatuses : NodeListenReturn(status)
       \/ NodeUnlistenCall
       \/ \E i \in 1..MaxListens, status \in LoopPollStatuses : NodeLoopPoll(i, status)
       \/ \E i \in 1..MaxListens : NodeLoopReregistered(i)
       \/ \E i \in 1..MaxListens : NodeLoopSleep(i)
    /\ UNCHANGED <<loopRest, registerVars, classifyVars, secretVars, requestVars, sessionVars, serviceVars>>

ListenSpec == Init /\ [][ListenNext]_vars

----------------------------------------------------------------------------
(* The cluster id of the requests, and what a registration response returns *)

\* This specification runs the poll loop of Spec for an agent constructed
\* from a secret, and records what the server sees: the cluster id its last
\* successful registration response returned, the cluster id in the path of
\* the last poll or report request, and whether a report was answered 410
\* with no successful registration since.

\* how many failed polls in a row the server answers before it answers 200
MaxSessionFailures == 2

\* the secret of the agent: sk_a_a
AgentSecret == <<"sk", "_", "a", "_", "a">>

\* the cluster ids a registration response can carry: the one of the secret,
\* another one
ServerClusterIds == {<<"a">>, <<"a", "a">>}

\* the job messages of a poll response: none, or one for the registered tool
SessionBatches == {<<>>, <<[fn |-> "echo", input |-> "valid"]>>}

\* polling.go:177-179 and 326-328 s.inferable.clusterID, polling.ts:96-98 and
\* 169-172 this.clusterId: the cluster id in the path of a poll or report
\* request; it is set by the constructor and nothing assigns it afterwards
RequestClusterId == client.clusterId

\* a poll or report request is sent
Scoped(s) == [s EXCEPT !.used = RequestClusterId]

\* polling.go:116 and 187, polling.ts:51 and 115: the value registerMachine
\* returns is dropped; the server has answered with this cluster id
Answered(s, status, id) ==
    IF status = 200 THEN [s EXCEPT !.registered = id, !.gone = FALSE] ELSE s

SessionInit ==
    /\ LoopInit
    /\ RegisterIdle
    /\ ClassifyIdle
    /\ RequestIdle
    /\ ListenIdle
    /\ ServiceIdle
    /\ secret = AgentSecret
    /\ client = (IF sdk = "node" THEN NodeConstructor(secret) ELSE GoNew(secret))
    /\ session = [registered |-> <<>>, used |-> <<>>, gone |-> FALSE]

SessionNext ==
    /\ \/ /\ \/ Listen \/ Start \/ Unlisten \/ Stop \/ GoSleep \/ GoPollReturn
             \/ GoAfterPoll \/ AllSettled \/ NodeAfterIteration
          /\ UNCHANGED session
       \/ \E status \in RegisterStatuses, id \in ServerClusterIds :
             \/ ListenRegistered(status) /\ session' = Answered(session, status, id)
             \/ /\ Started(status)
                /\ session' = IF pc' = "polling" THEN Scoped(Answered(session, status, id))
                              ELSE Answered(session, status, id)
             \/ GoReregistered(status) /\ session' = Answered(session, status, id)
             \/ NodeReregistered(status) /\ session' = Answered(session, status, id)
       \/ /\ GoSelect \/ NodeSleep
          /\ session' = IF pc' = "polling" THEN Scoped(session) ELSE session
       \/ \E status \in {200, 410}, msgs \in SessionBatches :
             /\ status # 200 => msgs = <<>> /\ failureCount < MaxSessionFailures
             /\ GoPollResponse(status, <<>>, msgs) \/ NodePollResponse(status, <<>>, msgs)
             /\ UNCHANGED session
       \/ \E ret \in GoHandlerReturns, r2 \in ReportStatuses :
             /\ r2 # 204 => failureCount < MaxSessionFailures
             /\ GoHandle(ret, 204, r2)
             /\ session' = [Scoped(session) EXCEPT !.gone = @ \/ r2 = 410]
       \/ \E ret \in HandlerReturns :
             HandlerDone(1, ret) /\ session' = Scoped(session)
       \/ \E status \in ReportStatuses :
             /\ ReportResponse(1, status)
             /\ session' = [session EXCEPT !.gone = @ \/ status = 410]
    /\ UNCHANGED <<registerVars, classifyVars, secretVars, requestVars, listenVars, serviceVars>>

SessionSpec == SessionInit /\ [][SessionNext]_vars

----------------------------------------------------------------------------
(* A handler that never completes *)

\* This specification adds to the poll loop of Spec a handler call that never
\* returns, for a tool registered with a timeoutSeconds config, and the
\* passing of that time. The loop's own steps are taken whenever they can be.

\* polling.ts:236 await executeFn(registration.handler, [args]): the promise
\* of the i-th job's handler never settles
NodeHandlerHangs(i) ==
    /\ sdk = "node"
    /\ pc = "jobs"
    /\ i \in 1..Len(batch)
    /\ batch[i].st = "running"
    /\ batch' = [batch EXCEPT ![i].st = "hung"]
    /\ UNCHANGED <<regStatus, sdk, tools, pc, polling, cancelSet, ctxDone, failureCount,
                   retryAfter, cur, errors, pollErr, slept, regs, lastPoll, stopCalled>>

\* polling.go:264-267 fnValue.Call: the handler of the next message is called
\* in the loop's goroutine and never returns
GoHandlerHangs ==
    /\ sdk = "go"
    /\ pc = "handle"
    /\ batch # <<>>
    /\ GoKnown(Head(batch).fn)
    /\ ~GoDecodeFails(Head(batch).input)
    /\ cur' = [Head(batch) EXCEPT !.invoked = @ + 1, !.st = "hung"]
    /\ batch' = Tail(batch)
    /\ pc' = "hung"
    /\ UNCHANGED <<regStatus, sdk, tools, polling, cancelSet, ctxDone, failureCount,
                   retryAfter, errors, pollErr, slept, regs, lastPoll, stopCalled>>

\* the timeoutSeconds of the tool's config have passed since the handler was
\* called: polling.ts:125-239 and polling.go:224-311 set no timer and read no
\* clock for it, so nothing but the time changes
TimeoutElapses ==
    \/ /\ sdk = "node"
       /\ \E i \in 1..Len(batch) :
             /\ batch[i].st = "hung"
             /\ batch' = [batch EXCEPT ![i].st = "overdue"]
       /\ UNCHANGED cur
    \/ /\ sdk = "go"
       /\ cur.st = "hung"
       /\ cur' = [cur EXCEPT !.st = "overdue"]
       /\ UNCHANGED batch
    /\ UNCHANGED <<regStatus, sdk, tools, pc, polling, cancelSet, ctxDone, failureCount,
                   retryAfter, errors, pollErr, slept, regs, lastPoll, stopCalled>>

HangNext ==
    /\ \/ GoNext
       \/ NodeNext
       \/ \E i \in 1..MaxBatch : NodeHandlerHangs(i)
       \/ GoHandlerHangs
       \/ TimeoutElapses
    /\ UNCHANGED <<registerVars, otherVars, classifyVars, secretVars, requestVars>>

\* every step of the loop, of a handler, of the server that can be taken is
\* taken in the end
HangSpec == Init /\ [][HangNext]_vars /\ WF_vars(HangNext)

----------------------------------------------------------------------------
(* A poll response with more job messages than the poll asked for *)

\* This specification runs the poll loop of Spec against a server whose poll
\* responses carry any number of job messages for the registered tool; the
\* handlers return a value, in the order of the messages, and every request
\* succeeds.

\* how many job messages a poll response carries at most
MaxBurst == 11

\* polling.ts:104 limit: 10, polling.go:179 limit=10: the batch size the poll
\* request asks for
BatchLimit == 10

\* a job message for the registered tool
EchoMessage == [fn |-> "echo", input |-> "valid"]

\* the Go handler returns (value, nil)
ValueReturn == <<[kind |-> "value", v |-> 1], [kind |-> "nilError", v |-> 0]>>

\* the poll responses of this server
BurstBatches == {[i \in 1..n |-> EchoMessage] : n \in 0..MaxBurst}

\* the handlers that are executing: in Node those of the jobs whose handler
\* was called and has not settled, in Go the one of the message being handled
Executing ==
    IF sdk = "node"
    THEN Cardinality({i \in 1..Len(batch) : batch[i].st = "running"})
    ELSE IF pc = "handle" /\ batch # <<>> THEN 1 ELSE 0

BurstNext ==
    /\ \/ Listen
       \/ ListenRegistered(200)
       \/ Unlisten
       \/ GoSleep
       \/ GoSelect
       \/ \E msgs \in BurstBatches : GoPollResponse(200, <<>>, msgs)
       \/ GoHandle(ValueReturn, 204, 204)
       \/ GoPollReturn
       \/ GoAfterPoll
       \/ Start
       \/ Started(200)
       \/ Stop
       \/ \E msgs \in BurstBatches : NodePollResponse(200, <<>>, msgs)
       \/ \E i \in 1..MaxBurst :
             /\ i <= Len(batch)
             /\ \A k \in 1..(i - 1) : Settled(batch[k])
             /\ HandlerDone(i, "value") \/ ReportResponse(i, 204)
       \/ AllSettled
       \/ NodeAfterIteration
       \/ NodeSleep
    /\ UNCHANGED <<registerVars, otherVars, classifyVars, secretVars, requestVars>>

BurstSpec == Init /\ [][BurstNext]_vars

----------------------------------------------------------------------------
(* Go service.Start: the poll loop of the service variant *)

\* service.go:18-19
ServiceMaxConsecutivePollFailures == 50
ServiceDefaultRetryAfter == 10

\* the status of a poll response of the service, and of its registration
ServicePollStatuses == {200, 410, 500}

\* service.go:37-44 a service before Start: no context, s.cancel nil
NewService ==
    [pc |-> "idle", failureCount |-> 0, retryAfter |-> 0, cancelSet |-> FALSE,
     ctxDone |-> FALSE, failed |-> 0, stopCalled |-> FALSE]

ServiceInit ==
    /\ LoopStart(RegisteredTools)
    /\ sdk = "go"
    /\ RegisterIdle
    /\ ClassifyIdle
    /\ SecretIdle
    /\ RequestIdle
    /\ ListenIdle
    /\ SessionIdle
    /\ service = NewService

\* service.go:177 the counter the goroutine of Start begins with
ServiceFirstCount == ServiceDefaultRetryAfter

\* service.go:167-203 Start: registerMachine, then a new context, retryAfter 0
\* and the goroutine, whose first statement sets failureCount
ServiceStart(status) ==
    /\ service.pc = "idle"
    /\ service' = IF status # 200
                     THEN [service EXCEPT !.pc = "failed"]
                     ELSE [service EXCEPT !.pc = "sleep", !.cancelSet = TRUE,
                                          !.ctxDone = FALSE, !.retryAfter = 0,
                                          !.failureCount = ServiceFirstCount]

\* service.go:206-211 Stop: cancels the context if Start has created one
ServiceCancel(s) == IF s.cancelSet THEN [s EXCEPT !.ctxDone = TRUE] ELSE s

\* Stop called by the application
ServiceStop ==
    /\ ~service.stopCalled
    /\ service' = [ServiceCancel(service) EXCEPT !.stopCalled = TRUE]

\* service.go:179 time.Sleep(s.retryAfter)
ServiceSleep ==
    /\ service.pc = "sleep"
    /\ service' = [service EXCEPT !.pc = "select"]

\* service.go:181-184 select: return when the context is done, poll otherwise
ServiceSelect ==
    /\ service.pc = "select"
    /\ service' = [service EXCEPT !.pc = IF service.ctxDone THEN "exited" ELSE "polling"]

\* service.go:213-270 poll: whether it returns an error, for the status of the
\* response and for whether handling one of its messages failed
ServicePollErr(status, handled) == FetchErr(status) \/ ~handled

\* service.go:242-248 the Retry-After header of a response poll did not reject
ServiceRetryAfter(status, header, current) ==
    IF FetchErr(status) THEN current ELSE GoRetryAfter(header, current)

\* service.go:187-197 after poll: count the failure and stop past the threshold
ServiceAfterPoll(s, err) ==
    IF ~err THEN s
    ELSE LET counted == [s EXCEPT !.failureCount = @ + 1, !.failed = @ + 1]
         IN  IF counted.failureCount > ServiceMaxConsecutivePollFailures
               THEN ServiceCancel(counted)
               ELSE counted

\* service.go:185-198 one poll of the loop and what the loop does with its result
ServicePoll(status, header, handled) ==
    /\ service.pc = "polling"
    /\ service' = [ServiceAfterPoll(
                       [service EXCEPT !.retryAfter = ServiceRetryAfter(status, header, @)],
                       ServicePollErr(status, handled))
                   EXCEPT !.pc = "sleep"]

ServiceNext ==
    /\ \/ \E status \in RegisterStatuses : ServiceStart(status)
       \/ ServiceStop
       \/ ServiceSleep
       \/ ServiceSelect
       \/ \E status \in ServicePollStatuses, header \in RetryAfterHeaders, handled \in BOOLEAN :
              ServicePoll(status, header, handled)
    /\ UNCHANGED <<loopVars, registerVars, classifyVars, secretVars, requestVars,
                   listenVars, sessionVars>>

ServiceSpec == ServiceInit /\ [][ServiceNext]_vars

----------------------------------------------------------------------------
(* Go: what reflection does with the Handler of a registered tool *)

\* how many values a Go function returns
ResultCounts == {0, 1}

\* the Handler values given to Register (kind: what the field holds): nil, an
\* int that is no function, and the functions of one
\* struct or pointer to struct that return nothing or one value
ReflectHandlers ==
    [id : {1}, params : {<<>>}, callable : {FALSE}, kind : {"nil", "int"}, results : {0}]
    \cup [id : {1}, params : {<<"struct">>, <<"ptrStruct">>}, callable : {TRUE},
          kind : {"func"}, results : ResultCounts]

\* what a call of a handler returns: as many values as its type has results
ReflectReturns(handler) ==
    IF handler.results = 0 THEN {<<>>} ELSE [1..handler.results -> GoReturnValues]

ReflectInit == RegisterInit /\ sdk = "go"

\* polling.go:65-66 reflect.TypeOf(fn.Handler).NumIn() panics unless the
\* Handler is a function
IsFunc(handler) == handler.kind = "func"

\* polling.go:55-112 Register: the tests on isPolling and on the name come
\* first; then reflection panics on a Handler that is no function; nothing
\* looks at the results of the function
GoRegisterReflect(name, handler) ==
    LET returned == GoRegisterError(name, handler)
        err == IF returned \in {"polling", "duplicate"} THEN returned
               ELSE IF ~IsFunc(handler) THEN "panic"
               ELSE returned
    IN  /\ pc # "panicked"
        /\ lastRegister' = [name |-> name, handler |-> handler, err |-> err]
        /\ registry' = IF err = "" THEN Store(name, handler) ELSE registry
        /\ tools' = DOMAIN registry'
        /\ UNCHANGED <<sdk, pc, polling, cancelSet, ctxDone, failureCount, retryAfter,
                       batch, cur, errors, pollErr, slept, regs, lastPoll, stopCalled,
                       regStatus, otherVars, classifyVars, secretVars, requestVars>>

\* polling.go:270 returnValues[0] panics for a function without results
HasResult(rets) == Len(rets) > 0

\* polling.go:224-311 handleMessage for a job of a registered tool with valid
\* input whose report succeeds: the handler is called, then its first return
\* value is read; a panic in the poll goroutine ends the process
GoInvoke(fn, rets) ==
    /\ sdk = "go"
    /\ pc = "polling"
    /\ fn \in DOMAIN registry
    /\ rets \in ReflectReturns(registry[fn])
    /\ returns' = rets
    /\ cur' = [Received([fn |-> fn, input |-> "valid"], 1) EXCEPT !.invoked = 1]
    /\ IF HasResult(rets)
       THEN /\ outcome' = GoCallResult(rets, 0)
            /\ pc' = "sleep"
       ELSE /\ pc' = "panicked"
            /\ UNCHANGED outcome
    /\ UNCHANGED <<sdk, tools, polling, cancelSet, ctxDone, failureCount, retryAfter,
                   batch, errors, pollErr, slept, regs, lastPoll, stopCalled, regStatus,
                   registerVars, clock, secretVars, requestVars, otherVars>>

ReflectNext ==
    \/ \E name \in ToolNames, handler \in ReflectHandlers : GoRegisterReflect(name, handler)
    \/ \E fn \in ToolNames, rets \in UNION {ReflectReturns(h) : h \in ReflectHandlers} :
          GoInvoke(fn, rets)
    \/ /\ \/ Listen
          \/ \E status \in RegisterStatuses : ListenRegistered(status)
          \/ Unlisten
          \/ GoSleep
          \/ GoSelect
       /\ UNCHANGED <<registerVars, otherVars, classifyVars, secretVars, requestVars>>

ReflectSpec == ReflectInit /\ [][ReflectNext]_vars

----------------------------------------------------------------------------
(* register and listen after a listen call that failed *)

\* Listen called again after a Listen that returned an error, polling.go:115-122:
\* Listen tests nothing but the result of registerMachine, and a failed
\* Listen returns before it creates the context
ListenAgain ==
    /\ sdk = "go"
    /\ pc = "failed"
    /\ Len(regs) < MaxListens
    /\ IF NoTools
       THEN UNCHANGED <<pc, regs>>
       ELSE pc' = "registering" /\ regs' = Append(regs, tools)
    /\ UNCHANGED <<regStatus, sdk, tools, polling, cancelSet, ctxDone, failureCount, retryAfter,
                   batch, cur, errors, pollErr, slept, lastPoll, stopCalled>>

\* agentrpc.ts:194-197 listen on a client whose pollingAgents is not empty
\* throws before it does anything
NodeListenRejected ==
    /\ sdk = "node"
    /\ NodeListening
    /\ listening' = [at |-> pc, last |-> "Tools already listening"]
    /\ UNCHANGED <<loopVars, registerVars, classifyVars, secretVars, requestVars,
                   loops, contexts, agents, sessionVars, serviceVars>>

\* listening records the position of the agent at the last listen call that
\* returned at once or sent a request, and which of the two it did
ReopenNext ==
    \/ \E name \in ToolNames : Register(name, EchoHandler)
    \/ /\ Listen \/ ListenAgain
       /\ listening' = [at |-> pc, last |-> IF NoTools THEN "no tools" ELSE "sent"]
       /\ UNCHANGED <<registerVars, classifyVars, secretVars, requestVars,
                      loops, contexts, agents, sessionVars, serviceVars>>
    \/ NodeListenRejected
    \/ /\ \/ \E status \in RegisterStatuses : ListenRegistered(status)
          \/ Start
          \/ \E status \in RegisterStatuses : Started(status)
          \/ GoSleep
          \/ GoSelect
          \/ Unlisten
          \/ Stop
       /\ UNCHANGED <<registerVars, otherVars, classifyVars, secretVars, requestVars>>

ReopenSpec == RegisterInit /\ [][ReopenNext]_vars

----------------------------------------------------------------------------
(* The callback of an MCP tool: server.ts, the earlier bin variant, bin.ts *)

\* the callback of server.ts (the earlier bin variant has the same loop,
\* line 111 there) and the callback of bin.ts, which calls createAndPollJob
McpCallbacks == {"server", "bin"}

\* server.ts:68-80, bin.ts:78-83: the callback is called and the createJob
\* request is sent
McpCall(callback) ==
    /\ request = <<>>
    /\ request' = [pc |-> "creating", status |-> "", result |-> "", resultType |-> "",
                   gets |-> 0, http |-> 0, created |-> NoView, latest |-> NoView,
                   callback |-> callback]
    /\ UNCHANGED <<answer, loopVars, registerVars, otherVars, classifyVars, secretVars>>

\* server.ts:82-91 and 107-116: the content "Failed to run tool: <status>"
FailedToRun == [kind |-> "failed", status |-> "", result |-> "", resultType |-> ""]

\* server.ts:82-94: the createJob response arrives
McpCreateResponse(http, body) ==
    /\ request # <<>>
    /\ request.callback = "server"
    /\ request.pc = "creating"
    /\ IF http # 200
       THEN /\ request' = [request EXCEPT !.pc = "done", !.http = http]
            /\ answer' = FailedToRun
       ELSE /\ request' = [request EXCEPT !.pc = "loop", !.http = http,
                                          !.status = body.status,
                                          !.result = Or(body.result, ""),
                                          !.resultType = Or(body.resultType, "rejection"),
                                          !.created = body, !.latest = body]
            /\ UNCHANGED answer
    /\ UNCHANGED <<loopVars, registerVars, otherVars, classifyVars, secretVars>>

\* server.ts:96 ["failure", "success"].includes(status)
McpTerminal(status) == status \in {"failure", "success"}

\* server.ts:96-104 and 123-130: the loop test; the content is returned, or
\* the timer runs and a getJob request is sent
McpLoopTest ==
    /\ request # <<>>
    /\ request.callback = "server"
    /\ request.pc = "loop"
    /\ IF McpTerminal(request.status)
       THEN /\ answer' = Returned(request.status, request.result, request.resultType)
            /\ request' = [request EXCEPT !.pc = "done"]
       ELSE /\ request.gets < MaxGets
            /\ request' = [request EXCEPT !.pc = "getting", !.gets = @ + 1]
            /\ UNCHANGED answer
    /\ UNCHANGED <<loopVars, registerVars, otherVars, classifyVars, secretVars>>

\* server.ts:99-121: the getJob response arrives
McpGetResponse(http, body) ==
    /\ request # <<>>
    /\ request.callback = "server"
    /\ request.pc = "getting"
    /\ IF http # 200
       THEN /\ request' = [request EXCEPT !.pc = "done", !.http = http]
            /\ answer' = FailedToRun
       ELSE /\ request' = [request EXCEPT !.pc = "loop", !.http = http,
                                          !.status = body.status,
                                          !.result = Or(body.result, ""),
                                          !.resultType = Or(body.resultType, "rejection"),
                                          !.latest = body]
            /\ UNCHANGED answer
    /\ UNCHANGED <<loopVars, registerVars, otherVars, classifyVars, secretVars>>

\* bin.ts:77-104: the callback returns what createAndPollJob returns, or the
\* message of what it throws
BinCallback == request # <<>> /\ request.callback = "bin"

McpNext ==
    \/ \E callback \in McpCallbacks : McpCall(callback)
    \/ \E http \in RequestStatuses, body \in JobViews :
          /\ http # 200 => body = NoView
          /\ McpCreateResponse(http, body)
    \/ McpLoopTest
    \/ \E http \in RequestStatuses, body \in JobViews :
          /\ http # 200 => body = NoView
          /\ McpGetResponse(http, body)
    \/ \E http \in RequestStatuses, body \in JobViews :
          /\ http # 200 => body = NoView
          /\ BinCallback
          /\ CreateResponse(http, body)
    \/ BinCallback /\ LoopTest
    \/ \E http \in RequestStatuses, body \in JobViews :
          /\ http # 200 => body = NoView
          /\ BinCallback
          /\ GetResponse(http, body)

McpSpec == RequestInit /\ [][McpNext]_vars

----------------------------------------------------------------------------
(* Properties *)

Known(j) == j.fn \in tools

Handled(j) == j.st \in {"skipped", "done", "failed"}

StoppedByThreshold == sdk = "go" /\ ctxDone /\ ~stopCalled

Looping == pc \notin {"idle", "registering", "failed"}

\* C1: every job message of a poll whose tool is registered gets exactly one
\* result report, of type resolution, rejection or interrupt: never more than
\* one is sent for a job id, and a job the agent is done with has one.
C1_ExactlyOneReport ==
    /\ Known(cur) /\ Handled(cur) => Len(cur.posted) = 1
    /\ \A i \in 1..Len(batch) :
          Known(batch[i]) =>
             /\ Len(batch[i].posted) <= 1
             /\ Handled(batch[i]) => Len(batch[i].posted) = 1
             /\ \A k \in 1..Len(batch[i].posted) : batch[i].posted[k] \in ResultTypes

\* C2: a job whose handler signals an error or whose report fails prevents no
\* other job of its batch from being executed and reported, and the loop goes
\* on: every job the agent is done with was reported whatever happened to the
\* jobs before it, and a poll that returned jobs never ends the loop.
C2_JobFailureIsolated ==
    /\ Known(cur) /\ Handled(cur) => Len(cur.posted) >= 1
    /\ \A i \in 1..Len(batch) :
          Known(batch[i]) /\ Handled(batch[i]) => Len(batch[i].posted) >= 1
    /\ StoppedByThreshold => lastPoll.status # 200

\* C3: after a poll response of status 410 exactly one registration request,
\* carrying the registered tools, has been sent when the next poll request is
\* sent (and none after any other poll response).
C3_OneReregistration ==
    lastPoll.status # 0 =>
        regs = IF lastPoll.status = 410 THEN <<tools>> ELSE <<>>

C3_Witness ==
    pc = "polling" /\ lastPoll.status = 410 /\ regs = <<tools>>

\* C4: the step that ends a poll iteration whose response was 410 leaves the
\* consecutive-failure counter unchanged.
C4_SessionGoneNotCounted ==
    [][pc = "returned" /\ lastPoll.status = 410 => failureCount' = failureCount]_vars

\* C5: the Go loop started by Listen is not stopped by its failure counter
\* while at most 50 polls have failed and is stopped by the 51st: Unlisten has
\* been called exactly when the counter exceeds 50, and from then on no poll
\* request is sent.
C5_GoStopsOn51st ==
    sdk = "go" /\ ~stopCalled =>
        /\ ctxDone <=> failureCount > MaxConsecutivePollFailures
        /\ ctxDone => pc \in {"sleep", "select", "exited"}

C5_Witness ==
    /\ sdk = "go" /\ ~stopCalled
    /\ failureCount = MaxConsecutivePollFailures + 1
    /\ pc = "exited"

\* C6: the step that ends a successful poll iteration leaves the failure
\* counter at 0.
C6_CounterResetOnSuccess ==
    [][pc = "returned" /\ ~pollErr /\ pc' = "sleep" => failureCount' = 0]_vars

\* C7: the Node loop sends no poll request once its failure counter exceeds
\* the threshold of 50.
C7_NodeStopsOnThreshold ==
    sdk = "node" /\ failureCount > MaxConsecutivePollFailures => pc # "polling"

\* C8: while the failure counter is at most 50 and the application has not
\* stopped the agent, failed polls do not end the loop, and the jobs of a poll
\* that succeeds after failures are executed and reported.
C8_TransientFailureKeepsLoop ==
    Looping /\ ~stopCalled /\ failureCount <= MaxConsecutivePollFailures =>
        /\ pc # "exited"
        /\ IF sdk = "go" THEN ~ctxDone ELSE polling
        /\ Known(cur) /\ Handled(cur) => Len(cur.posted) >= 1
        /\ \A i \in 1..Len(batch) :
              Known(batch[i]) /\ Handled(batch[i]) => Len(batch[i].posted) >= 1

C8_Witness ==
    /\ ~stopCalled
    /\ failureCount > 0
    /\ \/ cur.st = "done"
       \/ \E i \in 1..Len(batch) : batch[i].st = "done"

\* C9: after a successful poll response with a Retry-After value of N seconds,
\* the sleep before the next poll request lasts N seconds.
C9_RetryAfterPacesNextPoll ==
    /\ pc \in {"select", "polling", "exited"}
    /\ lastPoll.status = 200
    /\ lastPoll.directive >= 0
    => slept = lastPoll.directive

C9_Witness ==
    pc = "polling" /\ lastPoll.status = 200 /\ lastPoll.directive = 2 /\ slept = 2

\* C10: a job message for a tool that is not registered gets no result report
\* and no handler call, adds no error to the poll, and the other jobs of the
\* batch are processed.
C10_UnknownToolDropped ==
    /\ [](/\ cur.st # "none" /\ ~Known(cur) =>
                cur.st = "skipped" /\ cur.posted = <<>> /\ cur.invoked = 0
          /\ \A i \in 1..Len(batch) :
                batch[i].st # "received" /\ ~Known(batch[i]) =>
                   /\ batch[i].st = "skipped"
                   /\ batch[i].posted = <<>>
                   /\ batch[i].invoked = 0
          /\ sdk = "node" /\ pc = "returned" /\ lastPoll.status = 200 => ~pollErr)
    /\ [][pc = "handle" /\ cur'.st = "skipped" => errors' = errors]_vars

C10_Witness ==
    \/ /\ cur.st = "skipped"
       /\ batch # <<>>
    \/ \E i, j \in 1..Len(batch) : batch[i].st = "skipped" /\ batch[j].st = "done"

BadInput(j) == j.input \in {"invalid", "null"}

\* the application's stop has taken effect on a running loop
Stopping ==
    /\ stopCalled
    /\ Looping
    /\ IF sdk = "go" THEN ctxDone ELSE ~polling

\* C11: a job for a registered tool whose input is not an object or fails
\* decoding or validation gets a rejection and its handler is never called.
C11_HandlerSkippedOnBadInput ==
    /\ Known(cur) /\ Handled(cur) /\ BadInput(cur) =>
          /\ cur.invoked = 0
          /\ cur.posted # <<>> /\ cur.posted[1] = "rejection"
    /\ \A i \in 1..Len(batch) :
          Known(batch[i]) /\ batch[i].st # "received" /\ BadInput(batch[i]) =>
             /\ batch[i].invoked = 0
             /\ batch[i].posted # <<>> /\ batch[i].posted[1] = "rejection"

\* C13: a stop/unlisten called while the poll loop is running takes effect at
\* once and for good, and from then on no poll request is sent (the one in
\* flight may complete).
C13_NoPollAfterStop ==
    [][/\ ~stopCalled /\ stopCalled' /\ Looping => Stopping'
       /\ Stopping => Stopping' /\ ~(pc # "polling" /\ pc' = "polling")]_vars

C13_Witness ==
    Stopping /\ pc = "exited" /\ lastPoll.status = 200

\* C14: after stop/unlisten, every job of the poll that was in flight or being
\* processed is still handled and reported: the iteration returns only when
\* no job of the batch is left, and each job it is done with has its report.
C14_StopAbandonsNothing ==
    /\ [](stopCalled =>
            /\ Known(cur) /\ Handled(cur) => cur.posted # <<>>
            /\ \A i \in 1..Len(batch) :
                  Known(batch[i]) /\ Handled(batch[i]) => batch[i].posted # <<>>)
    /\ [][stopCalled /\ pc \in {"handle", "jobs"} /\ pc' # pc =>
            /\ pc' = "returned"
            /\ IF sdk = "go" THEN batch = <<>>
               ELSE \A i \in 1..Len(batch) : Handled(batch[i])]_vars

C14_Witness ==
    /\ Stopping
    /\ \/ pc = "handle" /\ cur.st = "done" /\ cur.id = MaxBatch
       \/ pc = "jobs" /\ \A i \in 1..Len(batch) : batch[i].st = "done"
    /\ lastPoll.status = 200

\* C17: when the registration request of listen gets a non-success status,
\* listen fails, the loop is not started and no poll request is ever sent.
C17_ListenFailsOnRegistrationFailure ==
    /\ [](/\ lastPoll = NoPoll /\ regStatus # 0 /\ (regStatus < 200 \/ regStatus >= 300) =>
                pc = "failed" /\ ~polling /\ ~cancelSet
          /\ pc = "failed" => lastPoll = NoPoll)
    /\ [][pc = "failed" => pc' = "failed"]_vars

C17_Witness ==
    pc = "failed" /\ regStatus = 500 /\ lastPoll = NoPoll

\* C12: the outcome of an executed Go job depends on the handler's return
\* values alone: rejection carrying an error when a return value is a non-nil
\* error (whatever else is returned), interrupt carrying an interrupt when an
\* Interrupt or non-nil *Interrupt and no error is returned, resolution
\* carrying the first return value otherwise; the execution time is not
\* negative.
C12_OutcomeFromReturns ==
    outcome # <<>> =>
        LET errs == {i \in 1..Len(returns) : returns[i].kind = "error"}
            ints == {i \in 1..Len(returns) : returns[i].kind \in {"interrupt", "interruptPtr"}}
        IN  /\ errs # {} =>
                 /\ outcome.type = "rejection"
                 /\ \E i \in errs : outcome.content = returns[i]
            /\ errs = {} /\ ints # {} =>
                 /\ outcome.type = "interrupt"
                 /\ \E i \in ints : outcome.content = returns[i]
            /\ errs = {} /\ ints = {} =>
                 /\ outcome.type = "resolution"
                 /\ outcome.content = returns[1]
            /\ outcome.time >= 0

C12_Witness ==
    /\ Len(returns) = 2
    /\ returns[1].kind = "interrupt"
    /\ returns[2].kind = "error"
    /\ outcome # <<>>
    /\ outcome.type = "rejection"

\* the poll loop has been started by listen
LoopStarted == pc \notin {"idle", "registering", "failed"}

\* a register call has just returned
RegisterReturned == lastRegister' # lastRegister

\* C15: a register call with a name that is already in the registry fails and
\* leaves the registry unchanged, and no call ever replaces or removes the
\* registration of a name.
C15_DuplicateNameRejected ==
    [][/\ RegisterReturned /\ lastRegister'.name \in DOMAIN registry =>
             lastRegister'.err # "" /\ registry' = registry
       /\ \A n \in DOMAIN registry :
             n \in DOMAIN registry' /\ registry'[n] = registry[n]]_vars

C15_Witness ==
    /\ pc = "idle"
    /\ lastRegister.err = "duplicate"
    /\ lastRegister.name \in DOMAIN registry
    /\ registry[lastRegister.name] # lastRegister.handler

\* C16: once listen has started the poll loop, every register call fails and
\* neither the registry nor the tools polled for change.
C16_NoLateRegistration ==
    [][LoopStarted =>
          /\ registry' = registry
          /\ tools' = tools
          /\ RegisterReturned => lastRegister'.err # ""]_vars

C16_Witness ==
    /\ LoopStarted
    /\ lastRegister.err \in {"polling", "listening"}
    /\ lastRegister.name \notin DOMAIN registry
    /\ lastRegister.handler = EchoHandler

\* a parameter list of exactly one struct or pointer to struct
OneStruct(params) == Len(params) = 1 /\ params[1] \in {"struct", "ptrStruct"}

\* C18: Go Register rejects every handler whose parameter list is not exactly
\* one struct or pointer to struct, and the registry is unchanged by the
\* rejected call; no such handler is ever in the registry.
C18_GoHandlerShapeChecked ==
    /\ [](sdk = "go" => \A n \in DOMAIN registry : OneStruct(registry[n].params))
    /\ [][sdk = "go" /\ RegisterReturned /\ ~OneStruct(lastRegister'.handler.params) =>
             lastRegister'.err # "" /\ registry' = registry]_vars

C18_Witness ==
    /\ sdk = "go" /\ pc = "idle"
    /\ lastRegister.name \notin DOMAIN registry
    /\ Len(lastRegister.handler.params) = 2
    /\ lastRegister.err # ""

\* the secret is sk_<clusterId>_<rand>: "sk", an underscore, and exactly one
\* more underscore at position k with something on both sides of it
SecretForm(k) ==
    /\ Len(secret) >= 5
    /\ secret[1] = "sk" /\ secret[2] = "_"
    /\ k \in 4..(Len(secret) - 1)
    /\ \A m \in 3..Len(secret) : secret[m] = "_" <=> m = k

\* C19: construction succeeds exactly for the secrets of the form
\* sk_<clusterId>_<rand> with three non-empty segments, in the Node
\* constructor and in Go New alike, and the client's cluster id is then the
\* second segment.
C19_SecretFormat ==
    client # <<>> =>
        /\ client.ok <=> \E k \in 1..Len(secret) : SecretForm(k)
        /\ \A k \in 1..Len(secret) :
              client.ok /\ SecretForm(k) => client.clusterId = SubSeq(secret, 3, k - 1)

\* C20: createAndPollJob returns only a status 'done' or 'failure', with the
\* result and resultType of the latest response (resultType 'rejection' when
\* the server gave none); it sends no getJob request when the createJob
\* response is already terminal; it throws when the createJob response or a
\* getJob response has a status other than 200.
C20_CreateAndPollJob ==
    request # <<>> =>
        /\ answer # <<>> /\ answer.kind = "returned" =>
              /\ answer.status \in {"done", "failure"}
              /\ answer.status = request.latest.status
              /\ answer.result = request.latest.result
              /\ answer.resultType = IF request.latest.resultType = "" THEN "rejection"
                                     ELSE request.latest.resultType
              /\ request.http = 200
        /\ request.created.status \in {"done", "failure"} => request.gets = 0
        /\ request.http \notin {0, 200} => answer # <<>> /\ answer.kind = "threw"

C20_Witness ==
    /\ request # <<>> /\ answer # <<>>
    /\ answer.kind = "returned"
    /\ request.gets = 2
    /\ request.created.result = "r1"
    /\ answer.result = "r2"
    /\ request.latest.resultType = ""

\* C28: the batch is joined before the next poll: the iteration is left only
\* when every job of the batch has finished (its report completed or failed,
\* or the job was skipped), and a poll request is sent only from the loop's
\* wait, with no job of a batch left.
C28_BatchJoinedBeforeNextPoll ==
    [][/\ pc \in {"handle", "jobs"} /\ pc' # pc =>
             /\ pc' = "returned"
             /\ \A i \in 1..Len(batch) : Handled(batch[i])
       /\ pc # "polling" /\ pc' = "polling" =>
             /\ pc \in {"registering", "select", "sleep"}
             /\ batch = <<>>]_vars

C28_Witness ==
    /\ sdk = "node" /\ pc = "jobs" /\ ENABLED AllSettled
    /\ Len(batch) = MaxBatch
    /\ batch[1].st = "failed"
    /\ batch[MaxBatch].st = "done"

\* C29: the jobs of one poll response are dispatched together: no job of the
\* batch waits, not yet started, while another job of the batch has already
\* finished, in either SDK.
C29_DispatchedConcurrently ==
    /\ pc = "handle" /\ cur # NoJob => batch = <<>>
    /\ pc = "jobs" => \A i \in 1..Len(batch) : batch[i].st # "received"

\* a poll loop of the agent is running
Active(i) == loops[i] # "exited"

\* the registration requests of the agent that are in flight
RegistrationsInFlight ==
    (IF listening.at = "registering" THEN 1 ELSE 0)
        + Cardinality({i \in DOMAIN loops : loops[i] = "reregister"})

\* C21: stopped is terminal: once a poll loop of the agent has stopped, no
\* listen called on the agent again makes it send another poll request.
C21_StoppedIsTerminal ==
    [][\A i \in DOMAIN loops : ~Active(i) =>
           \A j \in DOMAIN loops' :
               j > i /\ loops'[j] = "polling" => j \in DOMAIN loops /\ loops[j] = "polling"]_vars

\* C22: at most one poll loop is active per agent at any time, and so at most
\* one poll request of the agent is in flight, also after a second listen.
C22_OneLoopPerAgent ==
    /\ Cardinality({i \in DOMAIN loops : Active(i)}) <= 1
    /\ Cardinality({i \in DOMAIN loops : loops[i] = "polling"}) <= 1

\* C23: never are two registration requests of one agent in flight at once,
\* and no poll request of the agent is in flight while a registration request is.
C23_RegistrationSerialized ==
    /\ RegistrationsInFlight <= 1
    /\ RegistrationsInFlight = 1 => \A i \in DOMAIN loops : loops[i] # "polling"

\* C24: the cluster id that scopes every poll and every result-report request
\* is the id the most recent successful registration response returned.
C24_ScopedByRegisteredId ==
    session # <<>> /\ session.used # <<>> => session.used = session.registered

\* C25: after a result report was answered 410, the agent sends no poll
\* request before it has sent a registration request.
C25_ReregisterAfterReportGone ==
    session # <<>> /\ session.gone => pc # "polling"

\* polling.go:169-179 toolList, polling.ts:94 and 101: the tool filter of a
\* poll request names the tools the agent holds when the request is built
PollFilter == tools

\* C26: once listen has sent its registration request, the tools the agent
\* presents to the server do not change: the tool filter of every poll
\* request names exactly the tools of the initial registration.
C26_ToolsFixedAfterListen ==
    regs # <<>> /\ pc = "polling" => PollFilter = regs[1]

\* the handler of a job of the current batch has not returned although the
\* timeoutSeconds of its tool have passed
Overdue ==
    \/ cur.st = "overdue"
    \/ \E i \in 1..Len(batch) : batch[i].st = "overdue"

\* a terminal outcome was posted for every job whose handler was called
OutcomePosted ==
    /\ cur.invoked > 0 => cur.posted # <<>>
    /\ \A i \in 1..Len(batch) : batch[i].invoked > 0 => batch[i].posted # <<>>

\* C27: a handler that never completes does not block the poll loop forever:
\* once the timeoutSeconds of its tool have passed, a terminal outcome is
\* posted for the job and the agent sends its next poll request.
C27_HandlerTimeoutFreesLoop ==
    Overdue ~> (OutcomePosted /\ pc = "polling")

\* C30: the number of job handlers executing at the same time in one agent
\* never exceeds the batch size 10, whatever number of job messages a poll
\* response contains.
C30_AtMostTenHandlers ==
    Executing <= BatchLimit

\* C31: a failed result report is local to its job: the iteration of a poll
\* that was answered 200 never increments the consecutive-failure counter,
\* whatever became of the reports of its jobs.
C31_ReportFailureLocal ==
    [][pc = "returned" /\ lastPoll.status = 200 => failureCount' <= failureCount]_vars

\* a rejection was posted for the job and every report of the job succeeded
RejectedAndReported(j) ==
    /\ j.st = "done"
    /\ \E k \in 1..Len(j.posted) : j.posted[k] = "rejection"

\* C32: a job that ends in a rejection and whose report succeeds leaves the
\* poll loop untouched: handling it changes neither the failure counter, the
\* pacing interval, the polling state nor the errors of the poll, and an
\* iteration without a failed report ends as a successful one, which never
\* increments the counter.
C32_RejectionLeavesLoopUntouched ==
    /\ [][/\ pc \in {"handle", "jobs"}
          /\ \/ RejectedAndReported(cur') /\ cur' # cur
             \/ \E i \in 1..Len(batch) :
                   /\ Len(batch') = Len(batch)
                   /\ RejectedAndReported(batch'[i]) /\ batch'[i] # batch[i]
          => /\ UNCHANGED <<failureCount, retryAfter, polling, ctxDone, pollErr, errors>>
             /\ pc' = pc]_vars
    /\ [][/\ pc \in {"handle", "jobs"} /\ pc' = "returned"
          /\ errors = 0
          /\ \A i \in 1..Len(batch) : batch[i].st # "failed"
          => ~pollErr']_vars
    /\ [][pc = "returned" /\ pc' # pc /\ ~pollErr =>
             /\ failureCount' \in {failureCount, 0}
             /\ UNCHANGED <<retryAfter, polling, ctxDone>>]_vars

C32_Witness ==
    /\ RejectedAndReported(cur)
    /\ cur.invoked = 1
    /\ cur.posted = <<"rejection">>
    /\ errors = 0
    /\ pc = "handle"

\* C36: a poll response that is not successful, and a response without a
\* numeric Retry-After value, leaves the pacing interval unchanged.
C36_PacingFrame ==
    [][/\ pc = "polling" /\ pc' # pc
       /\ lastPoll'.status # 200 \/ lastPoll'.directive = -1
       => retryAfter' = retryAfter]_vars

\* the re-registration after the last poll response, a 410, has failed
ReregistrationFailed ==
    lastPoll.status = 410 /\ regStatus # 0 /\ (regStatus < 200 \/ regStatus >= 300)

C34_StopNeverLost ==
    stopCalled /\ Looping => IF sdk = "go" THEN ctxDone ELSE ~polling

\* the service loop was started and the application has not stopped it
ServiceRunning == service.pc \notin {"idle", "failed"} /\ ~service.stopCalled

\* C33: the loop of service.Start stops where pollingAgent.Listen does: its
\* failure counter is the number of failed polls (it starts at 0), it is
\* still polling after 50 failed polls, and the 51st cancels its context.
C33_ServiceStopsOn51st ==
    ServiceRunning =>
        /\ service.failureCount = service.failed
        /\ service.ctxDone <=> service.failed > MaxConsecutivePollFailures

\* C35: no handler Register accepts makes handleMessage panic: the poll
\* goroutine never panics on a received job, and Register returns an error
\* for a Handler that is nil or no function.
C35_AcceptedHandlersNeverPanic ==
    /\ pc # "panicked"
    /\ lastRegister.err # "panic"

\* C38: in Node a listen that failed at machine registration closes the
\* registration window for good: from then on the agent stays failed with no
\* poll loop running, the registry never changes, every register call throws
\* and every listen call throws "Tools already listening".
C38_FailedListenClosesWindow ==
    /\ [](sdk = "node" /\ pc = "failed" =>
            /\ ~polling
            /\ NodeListening
            /\ \A name \in ToolNames : NodeRegisterError(name, EchoHandler) # "")
    /\ [][sdk = "node" /\ pc = "failed" =>
            /\ pc' = "failed"
            /\ ~polling'
            /\ registry' = registry
            /\ regs' = regs
            /\ lastRegister' # lastRegister => lastRegister'.err # ""
            /\ listening' # listening => listening'.last = "Tools already listening"]_vars

\* a register call and a listen call were rejected on a Node client whose
\* listen had failed at machine registration
C38_Witness ==
    /\ sdk = "node"
    /\ pc = "failed"
    /\ regStatus = 500
    /\ ~polling
    /\ listening = [at |-> "failed", last |-> "Tools already listening"]
    /\ lastRegister.err = "listening"
    /\ "add" \notin DOMAIN registry

\* C40: Go Listen on an agent without tools fails without a registration
\* request and without a poll loop, and leaves registration open: isPolling
\* stays false and Register accepts a new tool.
C40_NoToolsListenLeavesOpen ==
    /\ [][sdk = "go" /\ tools = {} /\ listening' # listening =>
            /\ pc' = "failed"
            /\ regs' = regs
            /\ ~GoIsPolling'
            /\ UNCHANGED <<cancelSet, ctxDone, registry>>]_vars
    /\ [](sdk = "go" /\ pc = "failed" =>
            /\ ~GoIsPolling
            /\ \A name \in ToolNames \ DOMAIN registry : GoRegisterError(name, EchoHandler) = "")

\* after a Listen that failed for want of tools, a tool was registered and a
\* second Listen started the poll loop: one registration request was sent
C40_Witness ==
    /\ sdk = "go"
    /\ pc = "polling"
    /\ listening = [at |-> "failed", last |-> "sent"]
    /\ Len(regs) = 1
    /\ regStatus = 200
    /\ GoIsPolling

\* C39: an MCP tool callback stops once the job is terminal: when the loop
\* test finds the job's status 'done' or 'failure', the callback sends no
\* further getJob request and returns a result to the MCP client.
C39_CallbackEndsOnTerminalJob ==
    [][/\ request # <<>>
       /\ request.pc = "loop"
       /\ request.status \in {"done", "failure"}
       /\ request' # request
       => /\ request'.pc = "done"
          /\ request'.gets = request.gets
          /\ answer' # <<>>
          /\ answer'.kind = "returned"]_vars

====
